---- MODULE Spec2Model ----
(***************************************************************************)
(* Model of the wallet chaincode rc_chaincode/rc.go: the five handlers     *)
(* init_wallet, publish, transfer, get_account and get_txList, running     *)
(* against a versioned key-value store (world state plus per-key history). *)
(*                                                                         *)
(* Strings whose characters the code inspects (the amount and the transfer *)
(* type, which go through strconv) are sequences of one-character strings; *)
(* strings the code only copies (keys, collaborator, date) are opaque.     *)
(***************************************************************************)
EXTENDS Integers, Sequences, FiniteSets, TLC

\* ---------------------------------------------------------------- bounds
\* Bound on the committed PutState calls (history entries over all keys): a
\* handler that writes is invoked only while the largest write set of one
\* invocation, the two writes of transfer, still fits.
MaxWrites == 5

\* Bound on the length of a history not written by the handlers.
MaxForeign == 3

\* The number of values of the balance word. Wallet.Value is a uint64, with
\* 1<<64 values; the model keeps the word at this many, above every balance
\* the amounts of PublishValues can add up to within MaxWrites and below
\* what the amounts of LargeValues add up to.
Uint64Modulus == 64

\* ---------------------------------------------------------------- inputs
Keys == {"1", "2"}
Issuers == {"admin"}
Dates == {"20181212"}
PublishValues == {<<"1">>, <<"1", "0">>, <<"x">>}
TransferValues == {<<"1">>, <<"1", "0">>}
\* amounts that fit the parameter of ParseUint and the balance word and
\* whose sums do not fit the balance word
LargeValues == {<<"6", "0">>, <<"1", "0">>}
CodeArgs == {<<"3">>, <<"-", "1">>, <<"x">>}

\* a nil byte slice: what GetState gives for an absent key
Nil == [nil |-> TRUE]

\* ------------------------------------------------------------ strconv/fmt
DigitChars == <<"0", "1", "2", "3", "4", "5", "6", "7", "8", "9">>

IsDigit(c) == \E i \in 1..Len(DigitChars) : DigitChars[i] = c

DigitVal(c) == (CHOOSE i \in 1..Len(DigitChars) : DigitChars[i] = c) - 1

\* n > 1<<32 - 1, written so that it is computable on every natural
ExceedsUint32(n) == (n \div 65536) >= 65536

\* the digit loop of strconv.ParseUint(s, 10, 32) from position i with
\* accumulator n: an invalid byte gives (0, ErrSyntax), a value over
\* 1<<32 - 1 gives (1<<32 - 1, ErrRange)
RECURSIVE ParseUintLoop(_, _, _)
ParseUintLoop(s, i, n) ==
    IF i > Len(s)
    THEN [val |-> n, err |-> "nil"]
    ELSE IF ~IsDigit(s[i])
         THEN [val |-> 0, err |-> "syntax"]
         ELSE LET n1 == n * 10 + DigitVal(s[i])
              IN  IF ExceedsUint32(n1)
                  THEN [val |-> 65536 * 65535 + 65535, err |-> "range"]
                  ELSE ParseUintLoop(s, i + 1, n1)

ParseUint(s) ==
    IF s = <<>>
    THEN [val |-> 0, err |-> "syntax"]
    ELSE ParseUintLoop(s, 1, 0)

\* the digit loop of strconv.Atoi on the unsigned part of the string
RECURSIVE AtoiLoop(_, _, _)
AtoiLoop(s, i, n) ==
    IF i > Len(s)
    THEN [val |-> n, err |-> "nil"]
    ELSE IF ~IsDigit(s[i])
         THEN [val |-> 0, err |-> "syntax"]
         ELSE AtoiLoop(s, i + 1, n * 10 + DigitVal(s[i]))

\* strconv.Atoi on a string shorter than 19 bytes (its fast path): an
\* optional sign, then digits
Atoi(s) ==
    IF s = <<>>
    THEN [val |-> 0, err |-> "syntax"]
    ELSE LET signed == s[1] \in {"-", "+"}
             body == IF signed THEN Tail(s) ELSE s
             r == AtoiLoop(body, 1, 0)
         IN  IF body = <<>>
             THEN [val |-> 0, err |-> "syntax"]
             ELSE IF r.err = "nil" /\ s[1] = "-"
                  THEN [val |-> 0 - r.val, err |-> "nil"]
                  ELSE r

\* decimal rendering of a natural (strconv.FormatUint, fmt.Sprint of a uint64)
RECURSIVE FormatUint(_)
FormatUint(n) ==
    IF n < 10
    THEN <<DigitChars[n + 1]>>
    ELSE Append(FormatUint(n \div 10), DigitChars[(n % 10) + 1])

Itoa(n) == IF n < 0 THEN <<"-">> \o FormatUint(0 - n) ELSE FormatUint(n)

\* uint64 addition and subtraction: the result modulo the number of values
\* of the balance word
WrapUint64(n) == n % Uint64Modulus

AddUint64(a, b) == WrapUint64(a + b)

SubUint64(a, b) == WrapUint64(a - b)

\* ------------------------------------------------------------ data model
\* the zero value of TransferInfo and of Wallet
ZeroTransferInfo == [FromOrTo |-> "", Value |-> 0, Date |-> "", TxType |-> <<>>]

ZeroWallet == [Value |-> 0, Transfer |-> ZeroTransferInfo]

\* json.Marshal of a Wallet: the object with the fields' JSON names (the
\* tag of Wallet.Transfer is malformed, so that field keeps its Go name)
Marshal(w) ==
    [value |-> w.Value,
     Transfer |-> [fromOrTo |-> w.Transfer.FromOrTo,
                   value |-> w.Transfer.Value,
                   date |-> w.Transfer.Date,
                   type |-> w.Transfer.TxType]]

\* bytes that are no JSON text
Undecodable == [undecodable |-> TRUE]

\* json.Unmarshal(b, &w): nil input and input that is no JSON text are
\* errors and leave w as it was; an object written by Marshal sets every
\* field
Unmarshal(b, w) ==
    IF b = Nil \/ b = Undecodable
    THEN w
    ELSE [Value |-> b.value,
          Transfer |-> [FromOrTo |-> b.Transfer.fromOrTo,
                        Value |-> b.Transfer.value,
                        Date |-> b.Transfer.date,
                        TxType |-> b.Transfer.type]]

\* ------------------------------------------------------------ the store
\* a store s is [state, history, nextTx]: the current value of every key
\* (Nil when absent), the committed writes of every key oldest first, and
\* the identifier the next committed write gets
EmptyStore ==
    [state |-> [k \in Keys |-> Nil],
     history |-> [k \in Keys |-> <<>>],
     nextTx |-> 1]

GetState(s, key) == s.state[key]

\* a point write; ok is whether the store accepts it
PutState(s, key, bytes, ok) ==
    IF ok
    THEN [state |-> [s.state EXCEPT ![key] = bytes],
          history |-> [s.history EXCEPT
                         ![key] = Append(@, [TxId |-> s.nextTx, Value |-> bytes])],
          nextTx |-> s.nextTx + 1]
    ELSE s

\* the identifier of the write slot most recently committed
GetTxID(s) == s.nextTx - 1

GetHistoryForKey(s, key) == s.history[key]

\* a key holds a wallet; a key has no committed write
Exists(s, key) == s.state[key] # Nil

NeverWritten(s, key) == s.history[key] = <<>>

\* ------------------------------------------------------------ responses
\* what a handler leaves behind: the store, the response (status, error
\* kind, payload) and the PutState calls it made in order
Success(s, payload, writes) ==
    [store |-> s, status |-> "OK", kind |-> "none", payload |-> payload,
     writes |-> writes]

Error(s, kind, writes) ==
    [store |-> s, status |-> "ERROR", kind |-> kind, payload |-> Nil,
     writes |-> writes]

Attempt(key, bytes, ok) == [key |-> key, value |-> bytes, ok |-> ok]

\* ------------------------------------------------------------ handlers
\* the wallet init_wallet stores
NewWallet == [ZeroWallet EXCEPT !.Value = 0]

\* variant: a key that holds a wallet is left alone and its wallet returned
init_wallet_createOnce(s, args, ok1) ==
    IF Len(args) # 1
    THEN Error(s, "InvalidArgument", <<>>)
    ELSE IF GetState(s, args[1]) # Nil
         THEN Success(s, GetState(s, args[1]), <<>>)
         ELSE LET walletAsBytes == Marshal(NewWallet)
                  s1 == PutState(s, args[1], walletAsBytes, ok1)
                  writes == <<Attempt(args[1], walletAsBytes, ok1)>>
              IN  IF ~ok1
                  THEN Error(s1, "WriteFailed", writes)
                  ELSE Success(s1, walletAsBytes, writes)

init_wallet(s, args, ok1) ==
    IF Len(args) # 1
    THEN Error(s, "InvalidArgument", <<>>)
    ELSE LET walletAsBytes == Marshal(NewWallet)
             s1 == PutState(s, args[1], walletAsBytes, ok1)
             writes == <<Attempt(args[1], walletAsBytes, ok1)>>
         IN  IF ~ok1
             THEN Error(s1, "WriteFailed", writes)
             ELSE Success(s1, walletAsBytes, writes)

\* variant: the balance is assigned the amount instead of increased by it
PublishUpdate_assign(wallet, args, value) ==
    [Value |-> value,
     Transfer |-> [FromOrTo |-> args[2],
                   Value |-> value,
                   Date |-> args[4],
                   TxType |-> <<"0">>]]

\* the assignments of publish to the wallet it read
PublishUpdate(wallet, args, value) ==
    [Value |-> AddUint64(wallet.Value, value),
     Transfer |-> [FromOrTo |-> args[2],
                   Value |-> value,
                   Date |-> args[4],
                   TxType |-> <<"0">>]]

\* variant: a key that holds nothing is treated as holding the zero wallet
publish_createIfAbsent(s, args, ok1) ==
    IF Len(args) # 4
    THEN Error(s, "InvalidArgument", <<>>)
    ELSE LET got == GetState(s, args[1])
             wallet0 == Unmarshal(got, ZeroWallet)
             value == ParseUint(args[3]).val
             wallet == PublishUpdate(wallet0, args, value)
             walletAsBytes == Marshal(wallet)
             s1 == PutState(s, args[1], walletAsBytes, ok1)
             writes == <<Attempt(args[1], walletAsBytes, ok1)>>
         IN  IF ~ok1
             THEN Error(s1, "WriteFailed", writes)
             ELSE Success(s1, walletAsBytes, writes)

publish(s, args, ok1) ==
    IF Len(args) # 4
    THEN Error(s, "InvalidArgument", <<>>)
    ELSE LET got == GetState(s, args[1])
         IN  IF got = Nil
             THEN Error(s, "NotFound", <<>>)
             ELSE LET wallet0 == Unmarshal(got, ZeroWallet)
                      value == ParseUint(args[3]).val
                      wallet == PublishUpdate(wallet0, args, value)
                      walletAsBytes == Marshal(wallet)
                      s1 == PutState(s, args[1], walletAsBytes, ok1)
                      writes == <<Attempt(args[1], walletAsBytes, ok1)>>
                  IN  IF ~ok1
                      THEN Error(s1, "WriteFailed", writes)
                      ELSE Success(s1, walletAsBytes, writes)

\* variant: the amount of the last movement is returned for the balance
get_account_lastAmount(s, args) ==
    IF Len(args) # 1
    THEN Error(s, "InvalidArgument", <<>>)
    ELSE LET walletAsBytes == GetState(s, args[1])
         IN  IF walletAsBytes = Nil
             THEN Error(s, "NotFound", <<>>)
             ELSE LET wallet == Unmarshal(walletAsBytes, ZeroWallet)
                      value == FormatUint(wallet.Transfer.Value)
                  IN  Success(s, value, <<>>)

\* variant: the wallet read is written back to its key before answering
get_account_writeBack(s, args) ==
    IF Len(args) # 1
    THEN Error(s, "InvalidArgument", <<>>)
    ELSE LET walletAsBytes == GetState(s, args[1])
         IN  IF walletAsBytes = Nil
             THEN Error(s, "NotFound", <<>>)
             ELSE LET wallet == Unmarshal(walletAsBytes, ZeroWallet)
                      value == FormatUint(wallet.Value)
                  IN  Success(PutState(s, args[1], Marshal(wallet), TRUE), value,
                              <<Attempt(args[1], Marshal(wallet), TRUE)>>)

get_account(s, args) ==
    IF Len(args) # 1
    THEN Error(s, "InvalidArgument", <<>>)
    ELSE LET walletAsBytes == GetState(s, args[1])
         IN  IF walletAsBytes = Nil
             THEN Error(s, "NotFound", <<>>)
             ELSE LET wallet == Unmarshal(walletAsBytes, ZeroWallet)
                      value == FormatUint(wallet.Value)
                  IN  Success(s, value, <<>>)

\* variant: the test asks for both values to be absent
WalletMissing_both(fromAsBytes, toAsBytes) == fromAsBytes = Nil /\ toAsBytes = Nil

\* the existence test of transfer on the two values it read
WalletMissing(fromAsBytes, toAsBytes) == fromAsBytes = Nil \/ toAsBytes = Nil

\* variant: the test also refuses a balance equal to the amount
NotEnoughBalance_orEqual(from, value) == from.Value <= value

\* the balance test of transfer
NotEnoughBalance(from, value) == from.Value < value

\* variant: the balance of the wallet of args[0] is left as it was
DebitFrom_keepBalance(from, args, value) ==
    [Value |-> from.Value,
     Transfer |-> [FromOrTo |-> args[2],
                   Value |-> value,
                   Date |-> args[5],
                   TxType |-> args[4]]]

\* the assignments of transfer to the wallet of args[0]
DebitFrom(from, args, value) ==
    [Value |-> SubUint64(from.Value, value),
     Transfer |-> [FromOrTo |-> args[2],
                   Value |-> value,
                   Date |-> args[5],
                   TxType |-> args[4]]]

\* variant: the wallet of args[1] gets the type as supplied
CreditTo_suppliedType(to, args, value, fromType) ==
    [Value |-> AddUint64(to.Value, value),
     Transfer |-> [FromOrTo |-> args[1],
                   Value |-> value,
                   Date |-> args[5],
                   TxType |-> args[4]]]

\* the assignments of transfer to the wallet of args[1]
CreditTo(to, args, value, fromType) ==
    [Value |-> AddUint64(to.Value, value),
     Transfer |-> [FromOrTo |-> args[1],
                   Value |-> value,
                   Date |-> args[5],
                   TxType |-> fromType]]

\* variant: a refused write of args[1] is followed by a write that puts the
\* value read for args[0] back
WriteTransfer_compensate(s, args, fromAsBytes, toAsBytes, ok1, ok2) ==
    LET s1 == PutState(s, args[1], fromAsBytes, ok1)
        w1 == Attempt(args[1], fromAsBytes, ok1)
    IN  IF ~ok1
        THEN Error(s1, "WriteFailed", <<w1>>)
        ELSE LET txid == GetTxID(s1)
                 s2 == PutState(s1, args[2], toAsBytes, ok2)
                 w2 == Attempt(args[2], toAsBytes, ok2)
                 s3 == PutState(s2, args[1], GetState(s, args[1]), TRUE)
                 w3 == Attempt(args[1], GetState(s, args[1]), TRUE)
             IN  IF ~ok2
                 THEN Error(s3, "WriteFailed", <<w1, w2, w3>>)
                 ELSE Success(s2, txid, <<w1, w2>>)

\* variant: the wallet of args[1] is written first
WriteTransfer_destinationFirst(s, args, fromAsBytes, toAsBytes, ok1, ok2) ==
    LET s1 == PutState(s, args[2], toAsBytes, ok1)
        w1 == Attempt(args[2], toAsBytes, ok1)
    IN  IF ~ok1
        THEN Error(s1, "WriteFailed", <<w1>>)
        ELSE LET txid == GetTxID(s1)
                 s2 == PutState(s1, args[1], fromAsBytes, ok2)
                 w2 == Attempt(args[1], fromAsBytes, ok2)
             IN  IF ~ok2
                 THEN Error(s2, "WriteFailed", <<w1, w2>>)
                 ELSE Success(s2, txid, <<w1, w2>>)

\* the two PutState calls of transfer and its response
WriteTransfer(s, args, fromAsBytes, toAsBytes, ok1, ok2) ==
    LET s1 == PutState(s, args[1], fromAsBytes, ok1)
        w1 == Attempt(args[1], fromAsBytes, ok1)
    IN  IF ~ok1
        THEN Error(s1, "WriteFailed", <<w1>>)
        ELSE LET txid == GetTxID(s1)
                 s2 == PutState(s1, args[2], toAsBytes, ok2)
                 w2 == Attempt(args[2], toAsBytes, ok2)
             IN  IF ~ok2
                 THEN Error(s2, "WriteFailed", <<w1, w2>>)
                 ELSE Success(s2, txid, <<w1, w2>>)

\* variant: the value of args[1] is tested for absence only after the wallet
\* of args[0] has been debited and written
transfer_lateDestinationCheck(s, args, ok1, ok2) ==
    IF Len(args) # 5
    THEN Error(s, "InvalidArgument", <<>>)
    ELSE LET fromGot == GetState(s, args[1])
             toGot == GetState(s, args[2])
             value == ParseUint(args[3]).val
             toType == Atoi(args[4]).val + 1
             fromType == Itoa(toType)
         IN  IF fromGot = Nil
             THEN Error(s, "NotFound", <<>>)
             ELSE LET from0 == Unmarshal(fromGot, ZeroWallet)
                  IN  IF NotEnoughBalance(from0, value)
                      THEN Error(s, "InsufficientBalance", <<>>)
                      ELSE LET from == DebitFrom(from0, args, value)
                               fromAsBytes == Marshal(from)
                           IN  IF toGot = Nil
                               THEN Error(PutState(s, args[1], fromAsBytes, ok1),
                                          "NotFound",
                                          <<Attempt(args[1], fromAsBytes, ok1)>>)
                               ELSE LET to0 == Unmarshal(toGot, ZeroWallet)
                                        to == CreditTo(to0, args, value, fromType)
                                        toAsBytes == Marshal(to)
                                    IN  WriteTransfer(s, args, fromAsBytes,
                                                      toAsBytes, ok1, ok2)

\* variant: the wallet of args[1] is read after the wallet of args[0] has
\* been written
transfer_rereadDestination(s, args, ok1, ok2) ==
    IF Len(args) # 5
    THEN Error(s, "InvalidArgument", <<>>)
    ELSE LET fromGot == GetState(s, args[1])
             toGot == GetState(s, args[2])
             value == ParseUint(args[3]).val
             toType == Atoi(args[4]).val + 1
             fromType == Itoa(toType)
         IN  IF WalletMissing(fromGot, toGot)
             THEN Error(s, "NotFound", <<>>)
             ELSE LET from0 == Unmarshal(fromGot, ZeroWallet)
                  IN  IF NotEnoughBalance(from0, value)
                      THEN Error(s, "InsufficientBalance", <<>>)
                      ELSE LET from == DebitFrom(from0, args, value)
                               fromAsBytes == Marshal(from)
                               s1 == PutState(s, args[1], fromAsBytes, ok1)
                               to0 == Unmarshal(GetState(s1, args[2]), ZeroWallet)
                               to == CreditTo(to0, args, value, fromType)
                               toAsBytes == Marshal(to)
                           IN  WriteTransfer(s, args, fromAsBytes, toAsBytes,
                                             ok1, ok2)

transfer(s, args, ok1, ok2) ==
    IF Len(args) # 5
    THEN Error(s, "InvalidArgument", <<>>)
    ELSE LET fromGot == GetState(s, args[1])
             toGot == GetState(s, args[2])
             value == ParseUint(args[3]).val
             toType == Atoi(args[4]).val + 1
             fromType == Itoa(toType)
         IN  IF WalletMissing(fromGot, toGot)
             THEN Error(s, "NotFound", <<>>)
             ELSE LET from0 == Unmarshal(fromGot, ZeroWallet)
                      to0 == Unmarshal(toGot, ZeroWallet)
                  IN  IF NotEnoughBalance(from0, value)
                      THEN Error(s, "InsufficientBalance", <<>>)
                      ELSE LET from == DebitFrom(from0, args, value)
                               to == CreditTo(to0, args, value, fromType)
                               fromAsBytes == Marshal(from)
                               toAsBytes == Marshal(to)
                           IN  WriteTransfer(s, args, fromAsBytes, toAsBytes,
                                             ok1, ok2)

\* variant: an entry gets the wallet as it was before decoding its record
RECURSIVE HistoryLoop_stale(_, _, _, _)
HistoryLoop_stale(it, i, wallet, history) ==
    IF i > Len(it)
    THEN history
    ELSE LET historyData == it[i]
             wallet1 == Unmarshal(historyData.Value, wallet)
             tx == [TxId |-> historyData.TxId,
                    Value |-> IF historyData.Value = Nil THEN ZeroWallet ELSE wallet]
         IN  HistoryLoop_stale(it, i + 1, wallet1, Append(history, tx))

\* the loop of get_txList over the history records it[i..]: wallet is the
\* variable the loop decodes into, which lives across iterations
RECURSIVE HistoryLoop(_, _, _, _)
HistoryLoop(it, i, wallet, history) ==
    IF i > Len(it)
    THEN history
    ELSE LET historyData == it[i]
             wallet1 == Unmarshal(historyData.Value, wallet)
             wallet2 == IF historyData.Value = Nil
                        THEN wallet1
                        ELSE Unmarshal(historyData.Value, wallet1)
             tx == [TxId |-> historyData.TxId,
                    Value |-> IF historyData.Value = Nil THEN ZeroWallet ELSE wallet2]
         IN  HistoryLoop(it, i + 1, wallet2, Append(history, tx))

\* json.Marshal of the list of get_History entries
MarshalHistory(history) ==
    [i \in 1..Len(history) |->
        [txId |-> history[i].TxId, value |-> Marshal(history[i].Value)]]

\* opened is whether the store could open the history of the key
get_txList(s, args, opened) ==
    IF Len(args) # 1
    THEN Error(s, "InvalidArgument", <<>>)
    ELSE IF ~opened
         THEN Error(s, "StoreError", <<>>)
         ELSE LET resultsIterator == GetHistoryForKey(s, args[1])
                  history == HistoryLoop(resultsIterator, 1, ZeroWallet, <<>>)
              IN  Success(s, MarshalHistory(history), <<>>)

\* ------------------------------------------------------------ the system
\* store is the ledger and last the most recent invocation; published is
\* the sum of the amounts of the publish calls that succeeded so far;
\* running holds the transfer invocations that run step by step, next to
\* each other
VARIABLES store, last, published, running

vars == <<store, last, published, running>>

\* the invocations that may run next to each other
Procs == {"a", "b"}

\* an invocation not started: pc is where it stands, args its arguments,
\* fromGot and toGot the values its two GetState calls returned, readAt the
\* number of writes committed when it read, status its response
Idle ==
    [pc |-> "idle", args |-> <<>>, fromGot |-> Nil, toGot |-> Nil, readAt |-> 0,
     status |-> "none"]

\* a decimal numeral, and the number it denotes
IsNumeral(str) == Len(str) > 0 /\ \A i \in 1..Len(str) : IsDigit(str[i])

RECURSIVE NumeralValue(_)
NumeralValue(str) ==
    IF str = <<>>
    THEN 0
    ELSE NumeralValue(SubSeq(str, 1, Len(str) - 1)) * 10 + DigitVal(str[Len(str)])

\* what a call adds to the amount published: the amount a successful
\* publish was called with, read as a decimal numeral
PublishedBy(fn, args, r) ==
    IF fn = "publish" /\ r.status = "OK" /\ IsNumeral(args[3])
    THEN NumeralValue(args[3])
    ELSE 0

\* one invocation: the handler runs on the current store; last keeps the
\* call, the store it started from and what it answered
Call(fn, args, r) ==
    /\ store' = r.store
    /\ last' = [fn |-> fn, args |-> args, pre |-> store, status |-> r.status,
                kind |-> r.kind, payload |-> r.payload, writes |-> r.writes]
    /\ published' = published + PublishedBy(fn, args, r)
    /\ UNCHANGED running

\* PutState calls committed so far
Committed == store.nextTx - 1

Init ==
    /\ store = EmptyStore
    /\ last = [fn |-> "none", args |-> <<>>, pre |-> EmptyStore, status |-> "OK",
               kind |-> "none", payload |-> Nil, writes |-> <<>>]
    /\ published = 0
    /\ running = [p \in Procs |-> Idle]

\* argument vectors of the right length and, for the handlers that write,
\* the empty one
InitWalletArgs == {<<key>> : key \in Keys} \cup {<<>>}

PublishArgs ==
    {<<key, from, value, date>> :
        key \in Keys, from \in Issuers, value \in PublishValues, date \in Dates}
    \cup {<<>>}

TransferArgs ==
    {<<key, other, value, type, date>> :
        key \in Keys, other \in Keys, value \in TransferValues, type \in CodeArgs,
        date \in Dates}
    \cup {<<>>}

QueryArgs == {<<key>> : key \in Keys}

\* what the store answers to the two PutState calls of a transfer; the
\* second is not made when the first fails
WriteOutcomes == {<<TRUE, TRUE>>, <<TRUE, FALSE>>, <<FALSE, FALSE>>}

InitWallet ==
    /\ Committed + 2 <= MaxWrites
    /\ \E args \in InitWalletArgs, ok1 \in BOOLEAN :
         Call("init_wallet", args, init_wallet(store, args, ok1))

Publish ==
    /\ Committed + 2 <= MaxWrites
    /\ \E args \in PublishArgs, ok1 \in BOOLEAN :
         Call("publish", args, publish(store, args, ok1))

Transfer ==
    /\ Committed + 2 <= MaxWrites
    /\ \E args \in TransferArgs, oks \in WriteOutcomes :
         Call("transfer", args, transfer(store, args, oks[1], oks[2]))

GetAccount ==
    \E args \in QueryArgs :
       Call("get_account", args, get_account(store, args))

GetTxList ==
    \E args \in QueryArgs, opened \in BOOLEAN :
       Call("get_txList", args, get_txList(store, args, opened))

Next == InitWallet \/ Publish \/ Transfer \/ GetAccount \/ GetTxList

Spec == Init /\ [][Next]_vars

\* Executions with amounts whose sums pass the balance word; the store
\* accepts every write.
LargePublishArgs ==
    {<<key, from, value, date>> :
        key \in Keys, from \in Issuers, value \in LargeValues, date \in Dates}

LargeTransferArgs ==
    {<<key, other, value, type, date>> :
        key \in Keys, other \in Keys, value \in LargeValues, type \in {<<"3">>},
        date \in Dates}

InitWalletOnce ==
    /\ Committed + 2 <= MaxWrites
    /\ \E key \in Keys :
         /\ NeverWritten(store, key)
         /\ Call("init_wallet", <<key>>, init_wallet(store, <<key>>, TRUE))

PublishLarge ==
    /\ Committed + 2 <= MaxWrites
    /\ \E args \in LargePublishArgs :
         Call("publish", args, publish(store, args, TRUE))

TransferLarge ==
    /\ Committed + 2 <= MaxWrites
    /\ \E args \in LargeTransferArgs :
         Call("transfer", args, transfer(store, args, TRUE, TRUE))

NextOverflow == InitWalletOnce \/ PublishLarge \/ TransferLarge \/ GetAccount

SpecOverflow == Init /\ [][NextOverflow]_vars

\* Ledgers whose history of key "1" was not written by these handlers alone:
\* it holds up to MaxForeign records, each a wallet, a deletion (nil value)
\* or bytes that do not decode.
StoredWallets ==
    LET published10 ==
            PublishUpdate(ZeroWallet, <<"1", "admin", <<"1", "0">>, "20181212">>, 10)
    IN  {Marshal(published10),
         Marshal(DebitFrom(published10, <<"1", "2", <<"1">>, <<"3">>, "20181212">>, 1))}

StoredValues == StoredWallets \cup {Nil, Undecodable}

StoredHistories ==
    UNION {[1..n -> StoredValues] : n \in 1..MaxForeign}

StoreHolding(values) ==
    [state |-> [k \in Keys |-> IF k = "1" THEN values[Len(values)] ELSE Nil],
     history |-> [k \in Keys |->
                    IF k = "1"
                    THEN [i \in 1..Len(values) |-> [TxId |-> i, Value |-> values[i]]]
                    ELSE <<>>],
     nextTx |-> Len(values) + 1]

InitHistory ==
    /\ \E values \in StoredHistories :
          /\ store = StoreHolding(values)
          /\ last = [fn |-> "none", args |-> <<>>, pre |-> StoreHolding(values),
                     status |-> "OK", kind |-> "none", payload |-> Nil,
                     writes |-> <<>>]
    /\ published = 0
    /\ running = [p \in Procs |-> Idle]

NextHistory == GetTxList \/ GetAccount

SpecHistory == InitHistory /\ [][NextHistory]_vars

\* Two transfer invocations running next to each other on a ledger where
\* both keys hold a wallet with funds. An invocation takes three steps, one
\* per group of store calls: it reads both keys, it writes the source key,
\* it writes the destination key; what it computes in between depends on
\* nothing but what it read. The store accepts every write.
FundedStore(value1, value2) ==
    LET s1 == init_wallet(EmptyStore, <<"1">>, TRUE).store
        s2 == init_wallet(s1, <<"2">>, TRUE).store
        s3 == publish(s2, <<"1", "admin", value1, "20181212">>, TRUE).store
    IN  publish(s3, <<"2", "admin", value2, "20181212">>, TRUE).store

InitConcurrent ==
    /\ \E value1, value2 \in TransferValues :
          /\ store = FundedStore(value1, value2)
          /\ last = [fn |-> "none", args |-> <<>>,
                     pre |-> FundedStore(value1, value2), status |-> "OK",
                     kind |-> "none", payload |-> Nil, writes |-> <<>>]
          /\ published = NumeralValue(value1) + NumeralValue(value2)
    /\ running = [p \in Procs |-> Idle]

ConcurrentArgs ==
    {<<key, other, value, type, date>> :
        key \in Keys, other \in Keys, value \in TransferValues, type \in {<<"3">>},
        date \in Dates}

\* the wallets an invocation writes, from what it read
FromAsBytes(t) ==
    Marshal(DebitFrom(Unmarshal(t.fromGot, ZeroWallet), t.args,
                      ParseUint(t.args[3]).val))

\* variant: the destination wallet is computed from the value the key
\* holds when it is written
ToAsBytes_readAgain(t) ==
    Marshal(CreditTo(Unmarshal(GetState(store, t.args[2]), ZeroWallet), t.args,
                     ParseUint(t.args[3]).val, Itoa(Atoi(t.args[4]).val + 1)))

ToAsBytes(t) ==
    Marshal(CreditTo(Unmarshal(t.toGot, ZeroWallet), t.args,
                     ParseUint(t.args[3]).val, Itoa(Atoi(t.args[4]).val + 1)))

\* the two GetState calls and the tests on what they returned
TransferRead(p) ==
    /\ running[p].pc = "idle"
    /\ \E args \in ConcurrentArgs :
         LET fromGot == GetState(store, args[1])
             toGot == GetState(store, args[2])
             refused ==
                 \/ WalletMissing(fromGot, toGot)
                 \/ NotEnoughBalance(Unmarshal(fromGot, ZeroWallet),
                                     ParseUint(args[3]).val)
         IN  running' = [running EXCEPT ![p] =
                            [pc |-> IF refused THEN "done" ELSE "putFrom",
                             args |-> args, fromGot |-> fromGot, toGot |-> toGot,
                             readAt |-> Committed,
                             status |-> IF refused THEN "ERROR" ELSE "none"]]
    /\ UNCHANGED <<store, last, published>>

\* the PutState of the source wallet
TransferPutFrom(p) ==
    /\ running[p].pc = "putFrom"
    /\ store' = PutState(store, running[p].args[1], FromAsBytes(running[p]), TRUE)
    /\ running' = [running EXCEPT ![p].pc = "putTo"]
    /\ UNCHANGED <<last, published>>

\* the PutState of the destination wallet and the response
TransferPutTo(p) ==
    /\ running[p].pc = "putTo"
    /\ store' = PutState(store, running[p].args[2], ToAsBytes(running[p]), TRUE)
    /\ running' = [running EXCEPT ![p].pc = "done", ![p].status = "OK"]
    /\ UNCHANGED <<last, published>>

NextConcurrent ==
    \/ \E p \in Procs : TransferRead(p)
    \/ \E p \in Procs : TransferPutFrom(p)
    \/ \E p \in Procs : TransferPutTo(p)

SpecConcurrent == InitConcurrent /\ [][NextConcurrent]_vars

\* Sequential executions in which the store accepts every write, no key is
\* initialised twice and no transfer names the same key twice.
SequentialInitWallet ==
    /\ Committed + 2 <= MaxWrites
    /\ \E args \in InitWalletArgs :
         /\ Len(args) = 1 => NeverWritten(store, args[1])
         /\ Call("init_wallet", args, init_wallet(store, args, TRUE))

SequentialPublish ==
    /\ Committed + 2 <= MaxWrites
    /\ \E args \in PublishArgs :
         Call("publish", args, publish(store, args, TRUE))

SequentialTransfer ==
    /\ Committed + 2 <= MaxWrites
    /\ \E args \in TransferArgs :
         /\ Len(args) = 5 => args[1] # args[2]
         /\ Call("transfer", args, transfer(store, args, TRUE, TRUE))

NextSequential ==
    \/ SequentialInitWallet
    \/ SequentialPublish
    \/ SequentialTransfer
    \/ GetAccount
    \/ GetTxList

SpecSequential == Init /\ [][NextSequential]_vars

\* ------------------------------------------------------------ properties
\* What the properties read: the JSON stored under a key, and the call
\* recorded in last.
BalanceAt(s, key) == s.state[key].value

MovementAt(s, key) == s.state[key].Transfer

Called(fn, n) == last.fn = fn /\ Len(last.args) = n

Succeeded(fn, n) == Called(fn, n) /\ last.status = "OK"

\* an optionally signed decimal numeral, and the integer it denotes
IsIntNumeral(str) ==
    /\ Len(str) > 0
    /\ IF str[1] \in {"-", "+"} THEN IsNumeral(Tail(str)) ELSE IsNumeral(str)

IntValue(str) ==
    IF str[1] = "-" THEN 0 - NumeralValue(Tail(str))
    ELSE IF str[1] = "+" THEN NumeralValue(Tail(str))
    ELSE NumeralValue(str)

\* the numeral of an integer as decimal formatting writes it: no plus sign,
\* no leading zero, no minus zero
IsCanonical(str) ==
    /\ IsIntNumeral(str)
    /\ str[1] # "+"
    /\ LET digits == IF str[1] = "-" THEN Tail(str) ELSE str
       IN  /\ Len(digits) > 1 => digits[1] # "0"
           /\ str[1] = "-" => digits # <<"0">>

\* C1: every successful transfer leaves the sum of the source balance and
\* the destination balance as it was before the transfer.
C1_SumUnchanged ==
    Succeeded("transfer", 5) =>
        BalanceAt(store, last.args[1]) + BalanceAt(store, last.args[2])
            = BalanceAt(last.pre, last.args[1]) + BalanceAt(last.pre, last.args[2])

\* C2: with both accounts existing and an amount that is a numeral,
\* transfer answers InsufficientBalance exactly when the source balance
\* before the call is below the amount, and then it has made no write and
\* the store is as it was.
C2_InsufficientIffBelow ==
    (/\ Called("transfer", 5)
     /\ Exists(last.pre, last.args[1])
     /\ Exists(last.pre, last.args[2])
     /\ IsNumeral(last.args[3])) =>
        /\ (last.kind = "InsufficientBalance")
              <=> (BalanceAt(last.pre, last.args[1]) < NumeralValue(last.args[3]))
        /\ last.kind = "InsufficientBalance" =>
              /\ last.status = "ERROR"
              /\ last.writes = <<>>
              /\ store = last.pre

\* a transfer between two existing, distinct accounts refused because the
\* source holds something, but less than the amount
C2_Witness ==
    /\ Called("transfer", 5)
    /\ last.kind = "InsufficientBalance"
    /\ last.args[1] # last.args[2]
    /\ Exists(last.pre, last.args[2])
    /\ IsNumeral(last.args[3])
    /\ BalanceAt(last.pre, last.args[1]) > 0

C4_PublishCredits ==
    (Succeeded("publish", 4) /\ IsNumeral(last.args[3])) =>
        /\ BalanceAt(store, last.args[1])
              = BalanceAt(last.pre, last.args[1]) + NumeralValue(last.args[3])
        /\ MovementAt(store, last.args[1])
              = [fromOrTo |-> last.args[2], value |-> NumeralValue(last.args[3]),
                 date |-> last.args[4], type |-> <<"0">>]
        /\ \A key \in Keys \ {last.args[1]} :
              store.state[key] = last.pre.state[key]

\* a publish of 10 onto an account that already held something
C4_Witness ==
    /\ Succeeded("publish", 4)
    /\ last.args[3] = <<"1", "0">>
    /\ BalanceAt(last.pre, last.args[1]) > 0
    /\ BalanceAt(store, last.args[1]) = BalanceAt(last.pre, last.args[1]) + 10

\* C5: publish on a key never written, and transfer with the source or the
\* destination never written, answer NotFound, make no write and leave the
\* store (values and histories) as it was.
C5_NotFoundNoWrite ==
    (\/ Called("publish", 4) /\ NeverWritten(last.pre, last.args[1])
     \/ /\ Called("transfer", 5)
        /\ \/ NeverWritten(last.pre, last.args[1])
           \/ NeverWritten(last.pre, last.args[2])) =>
        /\ last.status = "ERROR"
        /\ last.kind = "NotFound"
        /\ last.writes = <<>>
        /\ store = last.pre

\* a transfer out of an existing account with funds to one never written
C5_Witness ==
    /\ Called("transfer", 5)
    /\ Exists(last.pre, last.args[1])
    /\ BalanceAt(last.pre, last.args[1]) > 0
    /\ IsNumeral(last.args[3])
    /\ NeverWritten(last.pre, last.args[2])
    /\ last.kind = "NotFound"

\* C6: publish and transfer called with an amount that is no numeral never
\* succeed: they make no write, leave the store as it was and, the accounts
\* existing, answer InvalidArgument.
C6_UnparsableRejected ==
    (/\ Called("publish", 4) \/ Called("transfer", 5)
     /\ ~IsNumeral(last.args[3])) =>
        /\ last.status = "ERROR"
        /\ last.writes = <<>>
        /\ store = last.pre
        /\ Exists(last.pre, last.args[1]) => last.kind = "InvalidArgument"

\* the zero movement record as stored
ZeroMovement == [fromOrTo |-> "", value |-> 0, date |-> "", type |-> <<>>]

\* C7: init_wallet makes one write, to its key, without looking at what the
\* key holds; when the store accepts the write the call succeeds and the key
\* holds balance 0 and the zero movement record, whatever it held before.
C7_InitOverwrites ==
    Called("init_wallet", 1) =>
        /\ Len(last.writes) = 1
        /\ last.writes[1].key = last.args[1]
        /\ last.writes[1].ok =>
              /\ last.status = "OK"
              /\ BalanceAt(store, last.args[1]) = 0
              /\ MovementAt(store, last.args[1]) = ZeroMovement

\* init_wallet on an account holding a positive balance
C7_Witness ==
    /\ Succeeded("init_wallet", 1)
    /\ Exists(last.pre, last.args[1])
    /\ BalanceAt(last.pre, last.args[1]) > 0
    /\ BalanceAt(store, last.args[1]) = 0

\* the values of the writes to key that the last call had committed, in order
CommittedValues(key) ==
    LET ToKey(w) == w.ok /\ w.key = key
        ws == SelectSeq(last.writes, ToKey)
    IN  [i \in 1..Len(ws) |-> ws[i].value]

ValuesOf(h) == [i \in 1..Len(h) |-> h[i].Value]

\* C8: the history of a key grows by exactly the committed writes of each
\* call to that key, in order, and get_txList on the key returns one entry
\* per committed write, oldest first, each with the identifier of that write
\* and the wallet it wrote, the identifiers pairwise distinct.
C8_HistoryListsWrites ==
    /\ \A key \in Keys :
          ValuesOf(store.history[key])
             = ValuesOf(last.pre.history[key]) \o CommittedValues(key)
    /\ Succeeded("get_txList", 1) =>
          LET h == store.history[last.args[1]]
              p == last.payload
          IN  /\ Len(p) = Len(h)
              /\ \A i \in 1..Len(h) :
                    /\ p[i].txId = h[i].TxId
                    /\ p[i].value = h[i].Value
              /\ \A i, j \in 1..Len(p) : i # j => p[i].txId # p[j].txId

\* get_txList on "1" after init_wallet, publish of 10 and a transfer of 1
\* out: three entries, with balances 0, 10 and 9
C8_Witness ==
    /\ Succeeded("get_txList", 1)
    /\ last.args[1] = "1"
    /\ Len(last.payload) = 3
    /\ last.payload[1].value.value = 0
    /\ last.payload[2].value.value = 10
    /\ last.payload[3].value.value = 9

\* C9: get_account answers NotFound for a key never written, and otherwise
\* the decimal numeral of the balance that the most recent committed write
\* to the key left.
C9_BalanceAsDecimal ==
    Called("get_account", 1) =>
        IF NeverWritten(last.pre, last.args[1])
        THEN last.status = "ERROR" /\ last.kind = "NotFound"
        ELSE LET h == store.history[last.args[1]]
             IN  /\ last.status = "OK"
                 /\ IsNumeral(last.payload)
                 /\ IsCanonical(last.payload)
                 /\ NumeralValue(last.payload) = h[Len(h)].Value.value

\* get_account("1") answering "9" after init_wallet, publish of 10 and a
\* transfer of 1 to "2"
C9_Witness ==
    /\ Succeeded("get_account", 1)
    /\ last.args[1] = "1"
    /\ last.payload = <<"9">>
    /\ Exists(store, "2")
    /\ BalanceAt(store, "2") = 1

\* C10: the first write transfer attempts is to the source key and the
\* second, made only after the first was accepted, is to the destination
\* key; when the source write is refused transfer answers WriteFailed having
\* attempted nothing else, and the store is as it was.
C10_SourceWriteFirst ==
    (Called("transfer", 5) /\ last.writes # <<>>) =>
        /\ Len(last.writes) <= 2
        /\ last.writes[1].key = last.args[1]
        /\ Len(last.writes) = 2 =>
              /\ last.writes[1].ok
              /\ last.writes[2].key = last.args[2]
        /\ ~last.writes[1].ok =>
              /\ Len(last.writes) = 1
              /\ last.status = "ERROR"
              /\ last.kind = "WriteFailed"
              /\ store = last.pre

\* a transfer of a positive amount between distinct accounts whose source
\* write was refused
C10_Witness ==
    /\ Called("transfer", 5)
    /\ last.args[1] # last.args[2]
    /\ Len(last.writes) = 1
    /\ ~last.writes[1].ok
    /\ last.writes[1].value.Transfer.value > 0
    /\ last.kind = "WriteFailed"

\* C11: when the store accepts the source write of a transfer and refuses
\* the destination write, the transfer answers WriteFailed having attempted
\* those two writes and no other; the source key holds the debited wallet,
\* its history longer by that one write, and the destination key, when it is
\* another key, holds what it held, its history as it was.
C11_PartialTransferStays ==
    (/\ Called("transfer", 5)
     /\ Len(last.writes) >= 2
     /\ last.writes[1].ok
     /\ ~last.writes[2].ok) =>
        /\ last.status = "ERROR"
        /\ last.kind = "WriteFailed"
        /\ Len(last.writes) = 2
        /\ store.state[last.args[1]] = last.writes[1].value
        /\ IsNumeral(last.args[3]) =>
              BalanceAt(store, last.args[1])
                 = BalanceAt(last.pre, last.args[1]) - NumeralValue(last.args[3])
        /\ Len(store.history[last.args[1]])
              = Len(last.pre.history[last.args[1]]) + 1
        /\ store.nextTx = last.pre.nextTx + 1
        /\ last.args[1] # last.args[2] =>
              /\ store.state[last.args[2]] = last.pre.state[last.args[2]]
              /\ store.history[last.args[2]] = last.pre.history[last.args[2]]

\* a transfer of 1 from "1", holding 10, to "2" whose destination write was
\* refused: "1" holds 9 and "2" still holds 0
C11_Witness ==
    /\ Called("transfer", 5)
    /\ last.args[1] = "1" /\ last.args[2] = "2"
    /\ last.args[3] = <<"1">>
    /\ Len(last.writes) = 2
    /\ last.writes[1].ok /\ ~last.writes[2].ok
    /\ last.kind = "WriteFailed"
    /\ BalanceAt(last.pre, "1") = 10
    /\ BalanceAt(store, "1") = 9
    /\ BalanceAt(store, "2") = 0

\* C12: a call that answers an error leaves the store (values, histories,
\* identifiers) as it was, except a transfer whose source write was accepted
\* and whose destination write was refused: that one leaves the store with
\* the source write committed and nothing else changed.
C12_ErrorsLeaveStore ==
    last.status = "ERROR" =>
        \/ store = last.pre
        \/ /\ Called("transfer", 5)
           /\ last.kind = "WriteFailed"
           /\ Len(last.writes) = 2
           /\ last.writes[1].ok
           /\ ~last.writes[2].ok
           /\ store # last.pre
           /\ store = PutState(last.pre, last.args[1], last.writes[1].value, TRUE)

\* a publish onto an account holding something whose write the store
\* refused: the call answers WriteFailed and the store is as it was
C12_Witness ==
    /\ Called("publish", 4)
    /\ last.status = "ERROR"
    /\ last.kind = "WriteFailed"
    /\ Len(last.writes) = 1
    /\ BalanceAt(last.pre, last.args[1]) > 0
    /\ IsNumeral(last.args[3])
    /\ store = last.pre

\* C13: no successful transfer, whatever base code it is given, writes a
\* movement record whose code is 0, the code of publish, to either account.
C13_TransferNeverRecordsZero ==
    Succeeded("transfer", 5) =>
        \A i \in 1..Len(last.writes) :
           LET type == last.writes[i].value.Transfer.type
           IN  ~(IsIntNumeral(type) /\ IntValue(type) = 0)

\* C17: a key that holds an account before a call holds one after it, and a
\* key that holds none before a call and one after it is the key of a
\* successful init_wallet: the set of existing accounts never shrinks and
\* grows only through init_wallet.
C17_AccountsOnlyAdded ==
    \A key \in Keys :
       /\ Exists(last.pre, key) => Exists(store, key)
       /\ (~Exists(last.pre, key) /\ Exists(store, key)) =>
             /\ Succeeded("init_wallet", 1)
             /\ last.args[1] = key

\* init_wallet has created a second account next to one holding a balance
C17_Witness ==
    /\ Succeeded("init_wallet", 1)
    /\ ~Exists(last.pre, last.args[1])
    /\ Exists(store, last.args[1])
    /\ \E key \in Keys \ {last.args[1]} :
          /\ Exists(last.pre, key)
          /\ BalanceAt(store, key) > 0

\* C18: a successful transfer whose source and destination are the same key
\* writes that key twice, first the wallet debited and then the wallet
\* credited, both computed from the balance read before either write; the
\* key ends with the balance before the call plus the amount and with the
\* movement record of the destination side: itself as collaborator, the
\* amount, the date and the base code plus one.
C18_SelfTransferCredits ==
    (Succeeded("transfer", 5) /\ last.args[1] = last.args[2]) =>
        LET key == last.args[1]
        IN  /\ Len(last.writes) = 2
            /\ last.writes[1].key = key
            /\ last.writes[2].key = key
            /\ store.state[key] = last.writes[2].value
            /\ MovementAt(store, key).fromOrTo = key
            /\ MovementAt(store, key).date = last.args[5]
            /\ IsIntNumeral(last.args[4]) =>
                  /\ IsCanonical(MovementAt(store, key).type)
                  /\ IntValue(MovementAt(store, key).type)
                        = IntValue(last.args[4]) + 1
            /\ IsNumeral(last.args[3]) =>
                  LET amount == NumeralValue(last.args[3])
                  IN  /\ last.writes[1].value.value
                            = BalanceAt(last.pre, key) - amount
                      /\ last.writes[2].value.value
                            = BalanceAt(last.pre, key) + amount
                      /\ BalanceAt(store, key) = BalanceAt(last.pre, key) + amount
                      /\ MovementAt(store, key).value = amount

\* transfer("1", "1", "1", "3", date) on an account holding 10: it holds 11
\* and carries code 4
C18_Witness ==
    /\ Succeeded("transfer", 5)
    /\ last.args[1] = "1" /\ last.args[2] = "1"
    /\ last.args[3] = <<"1">> /\ last.args[4] = <<"3">>
    /\ BalanceAt(last.pre, "1") = 10
    /\ BalanceAt(store, "1") = 11
    /\ MovementAt(store, "1").type = <<"4">>

\* the keys a call names: the first argument of init_wallet and of publish,
\* the first two of transfer
NamedKeys ==
    IF Called("init_wallet", 1) \/ Called("publish", 4)
    THEN {last.args[1]}
    ELSE IF Called("transfer", 5)
         THEN {last.args[1], last.args[2]}
         ELSE {}

\* C20: a call leaves the value and the history of every key it does not
\* name as they were and attempts no write to such a key; get_account and
\* get_txList attempt no write at all and leave the whole store as it was.
C20_OnlyNamedKeys ==
    /\ \A key \in Keys \ NamedKeys :
          /\ store.state[key] = last.pre.state[key]
          /\ store.history[key] = last.pre.history[key]
    /\ \A i \in 1..Len(last.writes) : last.writes[i].key \in NamedKeys
    /\ last.fn \in {"get_account", "get_txList"} =>
          /\ last.writes = <<>>
          /\ store = last.pre

\* a successful publish onto "1" while "2" holds a balance and a history
C20_Witness ==
    /\ Succeeded("publish", 4)
    /\ last.args[1] = "1"
    /\ BalanceAt(store, "1") > BalanceAt(last.pre, "1")
    /\ Exists(last.pre, "2")
    /\ BalanceAt(store, "2") > 0
    /\ Len(store.history["2"]) > 1

\* the sum of the balances of the keys of a set that hold a wallet
RECURSIVE SumOfBalances(_, _)
SumOfBalances(s, keys) ==
    IF keys = {}
    THEN 0
    ELSE LET key == CHOOSE k \in keys : TRUE
         IN  (IF Exists(s, key) THEN BalanceAt(s, key) ELSE 0)
                + SumOfBalances(s, keys \ {key})

\* C19: in sequential executions where the store accepts every write, no
\* key is initialised twice and no transfer names the same key twice, the
\* sum of all balances equals the sum of the amounts of the successful
\* publish calls so far.
C19_SupplyIsPublished == SumOfBalances(store, Keys) = published

\* a transfer has moved part of what was published from one account to the
\* other: both hold something and together they hold what was published
C19_Witness ==
    /\ Succeeded("transfer", 5)
    /\ BalanceAt(store, last.args[1]) > 0
    /\ BalanceAt(store, last.args[2]) > 0
    /\ BalanceAt(store, last.args[2]) > BalanceAt(last.pre, last.args[2])
    /\ published = 10

\* C14: every balance is at least 0 and every balance written by a publish
\* or a transfer of an amount that is a numeral is the exact sum or
\* difference of the balance read and the amount; a call whose credit would
\* pass the balance word does not succeed.
C14_ExactBalances ==
    /\ \A key \in Keys : Exists(store, key) => BalanceAt(store, key) >= 0
    /\ (Succeeded("publish", 4) /\ IsNumeral(last.args[3])) =>
          /\ BalanceAt(last.pre, last.args[1]) + NumeralValue(last.args[3])
                < Uint64Modulus
          /\ last.writes[1].value.value
                = BalanceAt(last.pre, last.args[1]) + NumeralValue(last.args[3])
    /\ (Succeeded("transfer", 5) /\ IsNumeral(last.args[3])) =>
          /\ BalanceAt(last.pre, last.args[2]) + NumeralValue(last.args[3])
                < Uint64Modulus
          /\ last.writes[1].value.value
                = BalanceAt(last.pre, last.args[1]) - NumeralValue(last.args[3])
          /\ last.writes[2].value.value
                = BalanceAt(last.pre, last.args[2]) + NumeralValue(last.args[3])

\* the zero wallet as get_txList returns it
ZeroAccount == [value |-> 0, Transfer |-> ZeroMovement]

\* C15: a successful get_txList returns one entry per history record, in
\* order and under the record's identifier; the entry of a record whose
\* value is nil or does not decode is the zero wallet, whatever the records
\* before it hold, and the entry of any other record is the wallet of that
\* record.
C15_BadEntriesAreZero ==
    Succeeded("get_txList", 1) =>
        LET h == store.history[last.args[1]]
            p == last.payload
        IN  /\ Len(p) = Len(h)
            /\ \A i \in 1..Len(h) :
                  /\ p[i].txId = h[i].TxId
                  /\ p[i].value = IF h[i].Value \in {Nil, Undecodable}
                                  THEN ZeroAccount
                                  ELSE h[i].Value

\* both invocations have answered success, and both had read before either
\* wrote: no write was committed between the two reads
BothTransferred == \A p \in Procs : running[p].status = "OK"

ReadBeforeWrites == running["a"].readAt = running["b"].readAt

\* the keys both invocations write
SharedKeys ==
    {running["a"].args[1], running["a"].args[2]}
        \cap {running["b"].args[1], running["b"].args[2]}

\* the balance an invocation read for a key it names, and what its last
\* write to that key adds to that balance
BalanceRead(t, key) ==
    IF key = t.args[1] THEN t.fromGot.value ELSE t.toGot.value

UpdateOf(t, key) ==
    IF key = t.args[2]
    THEN NumeralValue(t.args[3])
    ELSE 0 - NumeralValue(t.args[3])

\* C16: when two transfers have run next to each other, both having read
\* before either wrote, and both have succeeded, every key they share ends
\* with the balance both read changed by the update of one of them alone,
\* never by both updates.
C16_SharedKeepsOneUpdate ==
    (BothTransferred /\ ReadBeforeWrites) =>
        \A key \in SharedKeys :
           LET read == BalanceRead(running["a"], key)
               a == UpdateOf(running["a"], key)
               b == UpdateOf(running["b"], key)
           IN  /\ read = BalanceRead(running["b"], key)
               /\ BalanceAt(store, key) - read \in {a, b}
               /\ BalanceAt(store, key) - read # a + b

\* two transfers, each between distinct keys, have succeeded after reading
\* the same ledger, and the balances no longer add up to what was published
C16_Witness ==
    /\ BothTransferred
    /\ ReadBeforeWrites
    /\ SharedKeys # {}
    /\ \A p \in Procs : running[p].args[1] # running[p].args[2]
    /\ SumOfBalances(store, Keys) # published
    /\ SumOfBalances(last.pre, Keys) = published
====
